---- MODULE Spec2Model ----
(***************************************************************************)
(* DoHlyzer meter: Flow (src/Flow.py) and the TimeDiff feature group       *)
(* (src/ContElements/TimeDiff.py).                                         *)
(*                                                                         *)
(* Numbers.  Python floats are modelled by exact rationals <<n, d>> in     *)
(* lowest terms with d > 0; <<0, 0>> is NaN.  Values that pass through     *)
(* numpy.sqrt are modelled by signed roots <<s, n, d>> = s * sqrt(n / d),  *)
(* s \in {-1, 0, 1}; <<0, 0, 0>> is NaN.  Timestamps are whole ticks.      *)
(***************************************************************************)
EXTENDS Integers, Sequences, FiniteSets, TLC

VARIABLES
    packets,           \* Flow.packets: list of (packet, direction)
    latest_timestamp,  \* Flow.latest_timestamp
    mean_count,        \* TimeDiff.mean_count (class attribute)
    grand_total,       \* TimeDiff.grand_total (class attribute)
    grand_mean,        \* TimeDiff.grand_mean (class attribute, set by get_grand_mean)
    means,             \* history: what get_mean returned to each get_grand_mean call
    ret,               \* the last call: its name, argument and return value
    pc,                \* position of each thread inside get_grand_mean
    loc                \* locals of each thread inside get_grand_mean

vars == <<packets, latest_timestamp, mean_count, grand_total, grand_mean, means, ret, pc, loc>>

(* ------------------------------ bounds -------------------------------- *)

MaxPackets == 4

MaxCalls == 3

MaxInputLen == 2

NThreads == 2

\* timestamps a packet may carry in the flow specification (tenths of a second)
TimeVals == {0, 1, 2, 5}

\* timestamps of the flows that call get_grand_mean (seconds)
GrandTimeVals == {0, 2, 4, 6}

(* --------------------------- exact rationals -------------------------- *)

Abs(x) == IF x < 0 THEN -x ELSE x

Sgn(x) == IF x < 0 THEN -1 ELSE IF x = 0 THEN 0 ELSE 1

RECURSIVE GCD(_, _)
GCD(a, b) == IF b = 0 THEN a ELSE GCD(b, a % b)

NaN == <<0, 0>>

IsNaN(x) == x[2] = 0

RNorm(n, d) ==
    IF d = 0 THEN NaN
    ELSE LET g == GCD(Abs(n), Abs(d))
             s == Sgn(d)
         IN  <<(s * n) \div g, (s * d) \div g>>

R(i) == <<i, 1>>

RAdd(x, y) == IF IsNaN(x) \/ IsNaN(y) THEN NaN
              ELSE RNorm(x[1] * y[2] + y[1] * x[2], x[2] * y[2])

RSub(x, y) == IF IsNaN(x) \/ IsNaN(y) THEN NaN
              ELSE RNorm(x[1] * y[2] - y[1] * x[2], x[2] * y[2])

RMul(x, y) == IF IsNaN(x) \/ IsNaN(y) THEN NaN
              ELSE RNorm(x[1] * y[1], x[2] * y[2])

\* only used with y # 0
RDiv(x, y) == IF IsNaN(x) \/ IsNaN(y) THEN NaN
              ELSE RNorm(x[1] * y[2], x[2] * y[1])

(* ----------------------------- signed roots --------------------------- *)

SNaN == <<0, 0, 0>>

SIsNaN(s) == s[3] = 0

\* s * sqrt(q) for a rational q >= 0
SMake(s, q) == IF IsNaN(q) THEN SNaN
               ELSE IF s = 0 \/ q[1] = 0 THEN <<0, 0, 1>>
               ELSE <<s, q[1], q[2]>>

\* numpy.sqrt on a non-negative rational
Sqrt(q) == SMake(1, q)

\* a rational as a signed root
SFromR(x) == SMake(Sgn(x[1]), RMul(x, x))

\* rational / signed root, divisor # 0
SDivRS(x, s) == IF IsNaN(x) \/ SIsNaN(s) THEN SNaN
                ELSE SMake(Sgn(x[1]) * s[1], RDiv(RMul(x, x), <<s[2], s[3]>>))

\* signed root / rational, divisor # 0
SDivSR(s, x) == IF IsNaN(x) \/ SIsNaN(s) THEN SNaN
                ELSE SMake(s[1] * Sgn(x[1]), RDiv(<<s[2], s[3]>>, RMul(x, x)))

(* --------------------------- packets and flows ------------------------ *)

FORWARD == "FORWARD"

REVERSE == "REVERSE"

PacketDirection == {FORWARD, REVERSE}

\* a captured packet; only its timestamp is read by the code modelled here
Packet(t) == [time |-> t]

\* Python's None for temp_packet / temp_direction
None == "None"

RECURSIVE SeqsUpTo(_, _)
SeqsUpTo(S, n) ==
    IF n = 0 THEN {<<>>}
    ELSE LET prev == SeqsUpTo(S, n - 1)
         IN  prev \cup {Append(s, x) : s \in {q \in prev : Len(q) = n - 1}, x \in S}

\* packet lists of the flows whose TimeDiff objects call get_grand_mean
FlowInputs ==
    SeqsUpTo({<<Packet(t), d>> : t \in GrandTimeVals, d \in PacketDirection}, MaxInputLen)

(* ------------------------------ TimeDiff ------------------------------ *)

RECURSIVE get_dif_loop(_, _, _, _, _)
get_dif_loop(pk, i, temp_packet, temp_direction, time_diff) ==
    IF i > Len(pk) THEN time_diff
    ELSE LET packet == pk[i][1]
             direction == pk[i][2]
         IN  get_dif_loop(pk, i + 1, packet, direction,
                 IF temp_direction = FORWARD /\ direction = REVERSE
                 THEN Append(time_diff, packet.time - temp_packet.time)
                 ELSE time_diff)

\* variant: a delta for every packet that is followed by a Reverse packet
RECURSIVE get_dif_loop_any_reverse(_, _, _, _, _)
get_dif_loop_any_reverse(pk, i, temp_packet, temp_direction, time_diff) ==
    IF i > Len(pk) THEN time_diff
    ELSE LET packet == pk[i][1]
             direction == pk[i][2]
         IN  get_dif_loop_any_reverse(pk, i + 1, packet, direction,
                 IF temp_direction # None /\ direction = REVERSE
                 THEN Append(time_diff, packet.time - temp_packet.time)
                 ELSE time_diff)

get_dif_any_reverse(pk) == get_dif_loop_any_reverse(pk, 1, None, None, <<>>)

get_dif(pk) == get_dif_loop(pk, 1, None, None, <<>>)

RECURSIVE SumR(_)
SumR(s) == IF s = <<>> THEN R(0) ELSE RAdd(s[1], SumR(Tail(s)))

\* numpy.mean of a non-empty list
numpy_mean(s) == RDiv(SumR([i \in DOMAIN s |-> R(s[i])]), R(Len(s)))

\* numpy.var of a non-empty list: mean(abs(x - x.mean()) ** 2)
numpy_var(s) ==
    LET m == numpy_mean(s)
        dev(i) == RSub(R(s[i]), m)
    IN  RDiv(SumR([i \in DOMAIN s |-> RMul(dev(i), dev(i))]), R(Len(s)))

RECURSIVE Insert(_, _)
Insert(x, s) == IF s = <<>> THEN <<x>>
                ELSE IF x <= s[1] THEN <<x>> \o s
                ELSE <<s[1]>> \o Insert(x, Tail(s))

RECURSIVE Sort(_)
Sort(s) == IF s = <<>> THEN <<>> ELSE Insert(s[1], Sort(Tail(s)))

\* numpy.median: NaN on an empty list, else the middle of the sorted list
numpy_median(s) ==
    IF Len(s) = 0 THEN NaN
    ELSE LET srt == Sort(s)
             n == Len(s)
         IN  IF n % 2 = 1 THEN R(srt[(n + 1) \div 2])
             ELSE RDiv(RAdd(R(srt[n \div 2]), R(srt[n \div 2 + 1])), R(2))

Count(x, s) == Cardinality({i \in DOMAIN s : s[i] = x})

\* scipy.stats.mode of a non-empty list: the smallest of the most frequent values
stat_mode(s) ==
    LET vals == {s[i] : i \in DOMAIN s}
        best == {x \in vals : \A y \in vals : Count(y, s) <= Count(x, s)}
    IN  CHOOSE x \in best : \A y \in best : x <= y

get_var(pk) == IF Len(get_dif(pk)) # 0 THEN numpy_var(get_dif(pk)) ELSE R(-1)

get_mean(pk) == IF Len(get_dif(pk)) # 0 THEN numpy_mean(get_dif(pk)) ELSE R(-1)

get_median(pk) == numpy_median(get_dif(pk))

get_mode(pk) == IF Len(get_dif(pk)) # 0 THEN R(stat_mode(get_dif(pk))) ELSE R(-1)

get_std(pk) == IF Len(get_dif(pk)) # 0 THEN Sqrt(get_var(pk)) ELSE SFromR(R(-1))

\* variant: the guard tests the numerator instead of the standard deviation
get_skew_guard_on_dif(pk) ==
    LET mean == get_mean(pk)
        median == get_median(pk)
        dif == RMul(R(3), RSub(mean, median))
        std == get_std(pk)
    IN  IF dif # R(0) /\ std[1] # 0 THEN SDivRS(dif, std) ELSE SFromR(R(-10))

get_skew(pk) ==
    LET mean == get_mean(pk)
        median == get_median(pk)
        dif == RMul(R(3), RSub(mean, median))
        std == get_std(pk)
    IN  IF std[1] # 0 THEN SDivRS(dif, std) ELSE SFromR(R(-10))

get_skew2(pk) ==
    LET mean == get_mean(pk)
        mode == get_mode(pk)
        dif == RSub(mean, mode)
        std == get_std(pk)
    IN  IF std[1] # 0 THEN SDivRS(dif, std) ELSE SFromR(R(-10))

get_cov(pk) ==
    IF get_mean(pk) # R(0) THEN SDivSR(get_std(pk), get_mean(pk)) ELSE SFromR(R(-1))

\* the FlowDifferenceTime* entries of the dict built by Flow.get_data
FlowDifferenceTime(pk) ==
    [ Variance                 |-> get_var(pk),
      StandardDeviation        |-> get_std(pk),
      Mean                     |-> get_mean(pk),
      Median                   |-> get_median(pk),
      Mode                     |-> get_mode(pk),
      SkewFromMedian           |-> get_skew(pk),
      SkewFromMode             |-> get_skew2(pk),
      CoefficientofVariation   |-> get_cov(pk) ]

\* variant: the first call keeps its mean in the total
_get_grand_total_keep_first(count, total, m) ==
    [ grand_total |-> IF count = 0 THEN m ELSE RAdd(total, m),
      mean_count  |-> count + 1 ]

\* the fold: new (grand_total, mean_count) from the old pair and the caller's mean
_get_grand_total(count, total, m) ==
    [ grand_total |-> IF count = 0 THEN RSub(m, m) ELSE RAdd(total, m),
      mean_count  |-> count + 1 ]

\* variant: branch and divisor both from mean_count as read after the fold
grand_mean_divisor_after_fold(before, after) == IF after > 1 THEN after - 1 ELSE after

\* variant: branch and divisor both from mean_count as read before the fold
grand_mean_divisor_before_fold(before, after) == IF before > 1 THEN before - 1 ELSE before

\* the divisor get_grand_mean uses: the branch is taken on mean_count as read
\* before the fold, the divisor is computed from mean_count as read after it
grand_mean_divisor(before, after) == IF before > 1 THEN after - 1 ELSE after

Max(a, b) == IF a >= b THEN a ELSE b

(* ------------------------------- state -------------------------------- *)

Threads == 1..NThreads

NoLocals == [m |-> R(0), before |-> 0, count |-> 0, total |-> R(0), result |-> R(0)]

Init ==
    /\ packets = <<>>
    /\ latest_timestamp = 0
    /\ mean_count = 0
    /\ grand_total = R(0)
    /\ grand_mean = None
    /\ means = <<>>
    /\ ret = [op |-> "__init__", arg |-> None, val |-> None]
    /\ pc = [t \in Threads |-> "idle"]
    /\ loc = [t \in Threads |-> NoLocals]

(* ------------------------------- Flow --------------------------------- *)

\* variant: latest_timestamp follows the last packet
add_packet_last_time(packet, direction) ==
    /\ Len(packets) < MaxPackets
    /\ packets' = Append(packets, <<packet, direction>>)
    /\ latest_timestamp' = packet.time
    /\ ret' = [op |-> "add_packet", arg |-> <<packet, direction>>, val |-> None]
    /\ UNCHANGED <<mean_count, grand_total, grand_mean, means, pc, loc>>

add_packet(packet, direction) ==
    /\ Len(packets) < MaxPackets
    /\ packets' = Append(packets, <<packet, direction>>)
    /\ latest_timestamp' = Max(packet.time, latest_timestamp)
    /\ ret' = [op |-> "add_packet", arg |-> <<packet, direction>>, val |-> None]
    /\ UNCHANGED <<mean_count, grand_total, grand_mean, means, pc, loc>>

\* variant: the dict also holds 'FlowDifferenceTimeGrandMean': time.get_grand_mean()
get_data_with_grand_mean(pk) ==
    LET folded == _get_grand_total(mean_count, grand_total, get_mean(pk))
    IN  /\ ret' = [op |-> "get_data", val |-> FlowDifferenceTime(pk)]
        /\ grand_total' = folded.grand_total
        /\ mean_count' = folded.mean_count
        /\ UNCHANGED <<packets, latest_timestamp, grand_mean, means, pc, loc>>

\* Flow.get_data, restricted to the entries computed by TimeDiff
get_data(pk) ==
    /\ ret' = [op |-> "get_data", val |-> FlowDifferenceTime(pk)]
    /\ UNCHANGED <<packets, latest_timestamp, mean_count, grand_total, grand_mean,
                   means, pc, loc>>

\* a direct call of TimeDiff.get_dif
call_get_dif(pk) ==
    /\ ret' = [op |-> "get_dif", val |-> get_dif(pk)]
    /\ UNCHANGED <<packets, latest_timestamp, mean_count, grand_total, grand_mean,
                   means, pc, loc>>

(* --------------------- TimeDiff.get_grand_mean ------------------------ *)

get_grand_mean(pk) ==
    LET m == get_mean(pk)
        folded == _get_grand_total(mean_count, grand_total, m)
        divisor == grand_mean_divisor(mean_count, folded.mean_count)
        result == RDiv(folded.grand_total, R(divisor))
    IN  /\ Len(means) < MaxCalls
        /\ grand_total' = folded.grand_total
        /\ mean_count' = folded.mean_count
        /\ grand_mean' = result
        /\ means' = Append(means, m)
        /\ ret' = [op |-> "get_grand_mean", val |-> result, divisor |-> divisor]
        /\ UNCHANGED <<packets, latest_timestamp, pc, loc>>

(* --------------------------- specifications --------------------------- *)

\* one flow: packets arrive, features are read
Next ==
    \/ \E t \in TimeVals, d \in PacketDirection : add_packet(Packet(t), d)
    \/ get_data(packets)
    \/ call_get_dif(packets)

Spec == Init /\ [][Next]_vars

\* the class-level aggregator, called in sequence by the TimeDiff objects of several flows
NextGrand ==
    \/ \E pk \in FlowInputs : get_grand_mean(pk)
    \/ get_data(packets)
    \/ call_get_dif(packets)

SpecGrand == Init /\ [][NextGrand]_vars

(* ------------- get_grand_mean called from several threads ------------- *)
\* The class attributes are read and written without any lock; a thread can be
\* preempted between any two attribute accesses.

\* line 92: the call starts; pk is the packet list of the caller's flow
gm_call(t, pk) ==
    /\ pc[t] = "idle"
    /\ loc' = [loc EXCEPT ![t].m = get_mean(pk)]
    /\ means' = Append(means, get_mean(pk))
    /\ pc' = [pc EXCEPT ![t] = "gm_test"]
    /\ UNCHANGED <<packets, latest_timestamp, mean_count, grand_total, grand_mean, ret>>

\* line 100: if TimeDiff.mean_count > 1
gm_test(t) ==
    /\ pc[t] = "gm_test"
    /\ loc' = [loc EXCEPT ![t].before = mean_count]
    /\ pc' = [pc EXCEPT ![t] = "gt_test"]
    /\ UNCHANGED <<packets, latest_timestamp, mean_count, grand_total, grand_mean, means, ret>>

\* line 83: if TimeDiff.mean_count == 0
gt_test(t) ==
    /\ pc[t] = "gt_test"
    /\ pc' = [pc EXCEPT ![t] = IF mean_count = 0 THEN "gt_init" ELSE "gt_load"]
    /\ UNCHANGED <<packets, latest_timestamp, mean_count, grand_total, grand_mean, means,
                   ret, loc>>

\* line 84: TimeDiff.grand_total = self.get_mean() - self.get_mean()
gt_init(t) ==
    /\ pc[t] = "gt_init"
    /\ grand_total' = RSub(loc[t].m, loc[t].m)
    /\ pc' = [pc EXCEPT ![t] = "inc_load"]
    /\ UNCHANGED <<packets, latest_timestamp, mean_count, grand_mean, means, ret, loc>>

\* line 86, first half: load TimeDiff.grand_total
gt_load(t) ==
    /\ pc[t] = "gt_load"
    /\ loc' = [loc EXCEPT ![t].total = grand_total]
    /\ pc' = [pc EXCEPT ![t] = "gt_store"]
    /\ UNCHANGED <<packets, latest_timestamp, mean_count, grand_total, grand_mean, means, ret>>

\* line 86, second half: store TimeDiff.grand_total
gt_store(t) ==
    /\ pc[t] = "gt_store"
    /\ grand_total' = RAdd(loc[t].total, loc[t].m)
    /\ pc' = [pc EXCEPT ![t] = "inc_load"]
    /\ UNCHANGED <<packets, latest_timestamp, mean_count, grand_mean, means, ret, loc>>

\* line 88, first half: load TimeDiff.mean_count
inc_load(t) ==
    /\ pc[t] = "inc_load"
    /\ loc' = [loc EXCEPT ![t].count = mean_count]
    /\ pc' = [pc EXCEPT ![t] = "inc_store"]
    /\ UNCHANGED <<packets, latest_timestamp, mean_count, grand_total, grand_mean, means, ret>>

\* line 88, second half: store TimeDiff.mean_count
inc_store(t) ==
    /\ pc[t] = "inc_store"
    /\ mean_count' = loc[t].count + 1
    /\ pc' = [pc EXCEPT ![t] = "gt_return"]
    /\ UNCHANGED <<packets, latest_timestamp, grand_total, grand_mean, means, ret, loc>>

\* line 90: return TimeDiff.grand_total
gt_return(t) ==
    /\ pc[t] = "gt_return"
    /\ loc' = [loc EXCEPT ![t].result = grand_total]
    /\ pc' = [pc EXCEPT ![t] = "gm_div"]
    /\ UNCHANGED <<packets, latest_timestamp, mean_count, grand_total, grand_mean, means, ret>>

\* lines 101 / 103: read mean_count for the divisor, divide, store TimeDiff.grand_mean
gm_div(t) ==
    /\ pc[t] = "gm_div"
    /\ grand_mean' = RDiv(loc[t].result, R(grand_mean_divisor(loc[t].before, mean_count)))
    /\ loc' = [loc EXCEPT ![t].count = mean_count]
    /\ pc' = [pc EXCEPT ![t] = "gm_return"]
    /\ UNCHANGED <<packets, latest_timestamp, mean_count, grand_total, means, ret>>

\* line 105: return TimeDiff.grand_mean
gm_return(t) ==
    /\ pc[t] = "gm_return"
    /\ ret' = [op |-> "get_grand_mean", val |-> grand_mean,
               divisor |-> grand_mean_divisor(loc[t].before, loc[t].count)]
    /\ pc' = [pc EXCEPT ![t] = "done"]
    /\ UNCHANGED <<packets, latest_timestamp, mean_count, grand_total, grand_mean, means, loc>>

NextConc ==
    \/ \E t \in Threads, pk \in FlowInputs : gm_call(t, pk)
    \/ \E t \in Threads : gm_test(t)
    \/ \E t \in Threads : gt_test(t)
    \/ \E t \in Threads : gt_init(t)
    \/ \E t \in Threads : gt_load(t)
    \/ \E t \in Threads : gt_store(t)
    \/ \E t \in Threads : inc_load(t)
    \/ \E t \in Threads : inc_store(t)
    \/ \E t \in Threads : gt_return(t)
    \/ \E t \in Threads : gm_div(t)
    \/ \E t \in Threads : gm_return(t)

SpecConc == Init /\ [][NextConc]_vars

(* ======================= properties of one flow ======================= *)

\* indices i with packets[i] Forward and packets[i + 1] Reverse
ForwardReverseAt(pk) ==
    {i \in 1..(Len(pk) - 1) : pk[i][2] = FORWARD /\ pk[i + 1][2] = REVERSE}

ExampleFlow ==
    << <<Packet(0), FORWARD>>, <<Packet(1), REVERSE>>,
       <<Packet(2), FORWARD>>, <<Packet(5), REVERSE>> >>

AllSame(s) == \A i \in DOMAIN s : \A j \in DOMAIN s : s[i] = s[j]

\* C2 (as stated): a flow with fewer than 2 packets or without a Forward packet
\* immediately followed by a Reverse packet has an empty series, and its mean,
\* variance, standard deviation, mode and coefficient of variation are all -1.
C2_EmptySentinels ==
    (ret.op = "get_data" /\ (Len(packets) < 2 \/ ForwardReverseAt(packets) = {}))
        => /\ get_dif(packets) = <<>>
           /\ ret.val.Mean = R(-1)
           /\ ret.val.Variance = R(-1)
           /\ ret.val.StandardDeviation = SFromR(R(-1))
           /\ ret.val.Mode = R(-1)
           /\ ret.val.CoefficientofVariation = SFromR(R(-1))

\* C3: get_dif returns, in arrival order, exactly one value
\* packets[i+1].time - packets[i].time for each i where packets[i] is Forward
\* and packets[i+1] is Reverse, and nothing else; the example flow
\* 0(F), 1(R), 2(F), 5(R) gives <<1, 3>>.
C3_DifIsForwardReversePairs ==
    ret.op = "get_dif" =>
        LET at == ForwardReverseAt(packets)
            rank(i) == Cardinality({j \in at : j <= i})
        IN  /\ Len(ret.val) = Cardinality(at)
            /\ \A i \in at : ret.val[rank(i)] = packets[i + 1][1].time - packets[i][1].time
            /\ (packets = ExampleFlow => ret.val = <<1, 3>>)

C3_Witness == ret.op = "get_dif" /\ packets = ExampleFlow /\ ret.val = <<1, 3>>

\* C6: a get_data call leaves packets, latest_timestamp, mean_count and
\* grand_total as they were, and a get_data call that directly follows another
\* one (no add_packet in between) returns the same FlowDifferenceTime* values.
C6_GetDataReadOnly ==
    [][ret'.op = "get_data" =>
          /\ UNCHANGED <<packets, latest_timestamp, mean_count, grand_total>>
          /\ ret'.val = FlowDifferenceTime(packets)
          /\ (ret.op = "get_data" => ret'.val = ret.val)]_vars

C6_Witness ==
    /\ ret.op = "get_data"
    /\ get_dif(packets) = <<>>
    /\ Len(packets) = 2
    /\ IsNaN(ret.val.Median)
    /\ mean_count = 0

\* C7: each add_packet appends its (packet, direction) pair at the end of
\* packets and leaves the earlier entries alone, sets latest_timestamp to the
\* maximum of its old value and packet.time, so that latest_timestamp never
\* decreases and is at least the timestamp of every packet of the flow.
C7_AddPacket ==
    /\ [](\A i \in DOMAIN packets : latest_timestamp >= packets[i][1].time)
    /\ [][(packets' # packets \/ latest_timestamp' # latest_timestamp) =>
            /\ ret'.op = "add_packet"
            /\ packets' = Append(packets, ret'.arg)
            /\ latest_timestamp' = Max(latest_timestamp, ret'.arg[1].time)
            /\ latest_timestamp' >= latest_timestamp]_vars

C7_Witness ==
    /\ ret.op = "add_packet"
    /\ Len(packets) = 3
    /\ packets[3][1].time < packets[2][1].time
    /\ latest_timestamp = packets[2][1].time

\* C8: for a non-empty series, if the standard deviation is 0 (which is the
\* case whenever all the deltas are identical, a single delta included) both
\* skews are -10; otherwise they are 3 * (mean - median) / std and
\* (mean - mode) / std.
C8_Skew ==
    (ret.op = "get_data" /\ get_dif(packets) # <<>>) =>
        LET v == ret.val
            std == v.StandardDeviation
        IN  /\ AllSame(get_dif(packets)) => std = SFromR(R(0))
            /\ std = SFromR(R(0)) =>
                  /\ v.SkewFromMedian = SFromR(R(-10))
                  /\ v.SkewFromMode = SFromR(R(-10))
            /\ std # SFromR(R(0)) =>
                  /\ v.SkewFromMedian = SDivRS(RMul(R(3), RSub(v.Mean, v.Median)), std)
                  /\ v.SkewFromMode = SDivRS(RSub(v.Mean, v.Mode), std)

C8_Witness ==
    /\ ret.op = "get_data"
    /\ Len(get_dif(packets)) = 2
    /\ AllSame(get_dif(packets))
    /\ ret.val.SkewFromMedian = SFromR(R(-10))
    /\ ret.val.SkewFromMode = SFromR(R(-10))

(* ===================== properties of the aggregator =================== *)

Last(s) == s[Len(s)]

C5_DivisorRule ==
    ret.op = "get_grand_mean" =>
        ret.val = IF mean_count > 1 THEN RDiv(grand_total, R(mean_count - 1))
                  ELSE RDiv(grand_total, R(mean_count))

\* C9: after n sequential get_grand_mean calls, mean_count = n and grand_total
\* is the sum of the callers' means without the first one (0 after the first
\* call); only get_grand_mean changes the two variables, each call adds 1 to
\* mean_count, and mean_count never decreases.
C9_FoldState ==
    /\ [](/\ mean_count = Len(means)
          /\ grand_total = IF means = <<>> THEN R(0) ELSE SumR(Tail(means)))
    /\ [][/\ mean_count' >= mean_count
          /\ (mean_count' # mean_count \/ grand_total' # grand_total) =>
                /\ ret'.op = "get_grand_mean"
                /\ mean_count' = mean_count + 1
                /\ grand_total' = IF mean_count = 0 THEN R(0)
                                  ELSE RAdd(grand_total, Last(means'))]_vars

C9_Witness ==
    /\ Len(means) = 3
    /\ means[1] = R(-1)
    /\ means[2] = R(-1)
    /\ mean_count = 3
    /\ grand_total = RAdd(R(-1), means[3])
    /\ grand_total # SumR(means)

\* C10: the divisor used by a get_grand_mean call is at least 1, the very first
\* call included.
C10_DivisorPositive ==
    ret.op = "get_grand_mean" => ret.divisor >= 1

C10_Witness ==
    /\ ret.op = "get_grand_mean"
    /\ mean_count = 1
    /\ ret.divisor = 1

(* ==================== properties under concurrency ==================== *)

AllDone == \A t \in Threads : pc[t] = "done"

\* C4 (as stated): concurrent get_grand_mean calls behave as atomic critical
\* sections: once the k calls have completed mean_count has grown by k and
\* grand_total holds every folded mean (all the callers' means but the one of
\* the call that initialised it).
C4_Atomic ==
    AllDone =>
        /\ mean_count = Len(means)
        /\ \E i \in DOMAIN means : RAdd(grand_total, means[i]) = SumR(means)

====
